---- MODULE Spec2Model ----
(***************************************************************************)
(* ProgressRealmPromise: the promise returned when a (possibly synced)     *)
(* Realm is opened asynchronously.  One attempt owns an async open task, a *)
(* timeout promise, a progress notifier token and a set of listeners, and  *)
(* settles a single promise handle.                                        *)
(*                                                                         *)
(* JavaScript runs one job at a time: a synchronous call (constructor,     *)
(* cancel, progress) is one atomic step, promise reactions are jobs of the *)
(* microtask queue, and timers and native completions are macrotasks that  *)
(* run only when the microtask queue is empty.                             *)
(***************************************************************************)
EXTENDS Integers, Sequences, FiniteSets, TLC

\* ------------------------------------------------------------------ bounds
\* The latest time at which a single attempt is constructed.
MaxTime == 1

\* The progress events the download task of an attempt emits.
MaxEvents == 2

\* The attempts.  Attempts share no field: what they share is the instances
\* registry, the clock, the microtask queue and, when they open the same
\* Realm, the sync session.
Attempts == {1, 2}

\* ------------------------------------------------------- values of the code
OpenImmediately == "openImmediately"
DownloadBeforeOpen == "downloadBeforeOpen"
ThrowException == "throwException"
OpenLocalRealm == "openLocalRealm"
Undefined == "undefined"

DefaultTimeOut == 30 * 1000

\* A timeOut of a configured behavior: absent, a number of ms, or another value.
NoTimeOut == [kind |-> "undefined", ms |-> 0]
NumberTimeOut(ms) == [kind |-> "number", ms |-> ms]
BadTimeOut == [kind |-> "string", ms |-> 0]

ConfiguredTimeOuts == {1, 2}
TimeOutValues == {NoTimeOut, BadTimeOut} \cup {NumberTimeOut(ms) : ms \in ConfiguredTimeOuts}

\* sync.existingRealmFileBehavior / sync.newRealmFileBehavior
NoBehavior == [type |-> Undefined, timeOut |-> NoTimeOut, timeOutBehavior |-> Undefined]
DownloadBehaviors ==
    [type : {DownloadBeforeOpen}, timeOut : TimeOutValues,
     timeOutBehavior : {ThrowException, OpenLocalRealm, Undefined, "bogus"}]
OtherBehaviors ==
    [type : {OpenImmediately, "bogus"}, timeOut : {NoTimeOut}, timeOutBehavior : {Undefined}]
Behaviors == DownloadBehaviors \cup OtherBehaviors \cup {NoBehavior}
\* The behavior of the case that is not selected is drawn from a smaller set.
FewBehaviors ==
    {NoBehavior,
     [type |-> OpenImmediately, timeOut |-> NoTimeOut, timeOutBehavior |-> Undefined]}

Configs ==
    { c \in [sync : BOOLEAN, openSyncedRealmLocally : BOOLEAN, flexible : BOOLEAN,
             existingRealmFileBehavior : Behaviors, newRealmFileBehavior : Behaviors] :
        /\ (c.existingRealmFileBehavior \in FewBehaviors \/ c.newRealmFileBehavior \in FewBehaviors)
        /\ (~c.sync => /\ ~c.flexible
                       /\ c.existingRealmFileBehavior = NoBehavior
                       /\ c.newRealmFileBehavior = NoBehavior) }

\* A flexible-sync Realm that falls back to the local file after 1 ms when
\* the file exists, and takes the default behavior when it does not.
FallbackConfig ==
    [sync |-> TRUE, openSyncedRealmLocally |-> FALSE, flexible |-> TRUE,
     existingRealmFileBehavior |->
         [type |-> DownloadBeforeOpen, timeOut |-> NumberTimeOut(1),
          timeOutBehavior |-> OpenLocalRealm],
     newRealmFileBehavior |-> NoBehavior]

\* A few of the configurations: sync disabled, a Realm that is downloaded
\* with no timeOut when the file exists, and FallbackConfig.
FewConfigs ==
    {[sync |-> FALSE, openSyncedRealmLocally |-> FALSE, flexible |-> FALSE,
      existingRealmFileBehavior |-> NoBehavior, newRealmFileBehavior |-> NoBehavior],
     [sync |-> TRUE, openSyncedRealmLocally |-> FALSE, flexible |-> FALSE,
      existingRealmFileBehavior |->
          [type |-> DownloadBeforeOpen, timeOut |-> NoTimeOut, timeOutBehavior |-> Undefined],
      newRealmFileBehavior |-> NoBehavior],
     FallbackConfig}

\* ---------------------------------------------------------------- scenarios
\* What the application does in a run.  "one": it opens one Realm, with any
\* configuration and any failure of construction.  "listeners": it opens one
\* Realm with one of FewConfigs, and the calls of the listeners are recorded.
\* "two": it opens the same Realm, not yet on disk, twice in the same turn of
\* the event loop, both times with FallbackConfig; it registers estimate
\* listeners only and its downloads fail with no coded error.
Scenarios == {"one", "listeners", "two"}
AttemptsOf(s) == IF s = "two" THEN Attempts ELSE {1}
ConfigsOf(s) ==
    IF s = "one" THEN Configs ELSE IF s = "two" THEN {FallbackConfig} ELSE FewConfigs
ListenersOf(s) == IF s = "two" THEN {"estimate"} ELSE {"estimate", "bytes"}
\* The latest time at which an attempt is constructed.
LastBirth(s) == IF s = "two" THEN 0 ELSE MaxTime

\* ------------------------------------------------------------ promise values
Pending == [kind |-> "pending", val |-> "none"]
Resolved(v) == [kind |-> "resolved", val |-> v]
Rejected(e) == [kind |-> "rejected", val |-> e]

LocalRealm == "localRealm"
DownloadedRealm == "downloadedRealm"

CanceledError == "Async open canceled"
TimeoutError == "TimeoutError"
SessionInactive == "Sync session became inactive"
\* the error new Realm(config) throws in the handler of the timeout
LocalOpenFailed == "LocalOpenFailed"

\* PromiseHandle.resolve / PromiseHandle.reject: the first call settles the promise.
HandleResolve(h, v) == IF h = Pending THEN Resolved(v) ELSE h
HandleReject(h, e) == IF h = Pending THEN Rejected(e) ELSE h

\* ------------------------------------------------------------------- state
VARIABLES
    now,             \* the clock, in ms
    realmFile,       \* whether the Realm file exists locally (Realm.exists)
    allowClear,      \* flags.ALLOW_CLEAR_TEST_STATE
    instances,       \* ProgressRealmPromise.instances
    cfg,             \* per attempt: what the constructor captured of its configuration
    handle,          \* per attempt: the state of handle.promise
    task,            \* per attempt: this.task, "null" or "set"
    native,          \* per attempt: the binding's AsyncOpenTask behind this.task
    taskCatch,       \* per attempt: handle.promise.catch(() => this.task?.cancel()) is registered
    timeoutPromise,  \* per attempt: this.timeoutPromise with its timer and its own promise
    notifierToken,   \* per attempt: this.notifierToken, "null" or "token"
    listeners,       \* per attempt: this.listeners
    download,        \* per attempt: how far the task.start() chain has come
    microtasks,      \* the queue of pending promise reactions
    unhandled,       \* per attempt: errors thrown out of a promise reaction
    observed,        \* per attempt: the outcomes that awaiters have been handed
    first,           \* per attempt: the first source to deliver an outcome to the handle
    cancelAt,        \* per attempt: what the first cancel() on it found
    scenario,        \* what the application does with the class in this run
    sessionClosed,   \* per attempt: the sync session of its download became inactive
    calls,           \* per attempt: the calls of listeners made by the last step, in order
    returned,        \* per attempt: what progress() returned, when it was the last step
    emitted,         \* per attempt: the number of progress events its task has emitted
    seeded,          \* per attempt: the listeners that progress() has called
    opened           \* per attempt: the options new Realm(config, ...) got in the download chain, and when

vars == <<now, realmFile, allowClear, scenario, sessionClosed, calls, returned, emitted,
          seeded, opened, instances, cfg, handle, task, native, taskCatch,
          timeoutPromise, notifierToken, listeners, download, microtasks, unhandled,
          observed, first, cancelAt>>

Listeners == {"estimate", "bytes"}

NoCfg ==
    [born |-> FALSE, sync |-> FALSE, openSyncedRealmLocally |-> FALSE, flexible |-> FALSE,
     realmExists |-> FALSE, configured |-> FALSE, bornAt |-> 0, openBehavior |-> Undefined,
     timeOut |-> NoTimeOut, timeOutBehavior |-> Undefined]
NoNative ==
    [created |-> FALSE, started |-> FALSE, canceled |-> FALSE, released |-> FALSE,
     notifier |-> FALSE]
NoTimeoutPromise ==
    [set |-> FALSE, timer |-> "none", due |-> 0, promise |-> Pending, onReject |-> "none"]

\* A step that is neither progress() nor emitProgress calls no listener.
NoCalls == [a \in Attempts |-> <<>>]
NoReturn == [a \in Attempts |-> 0]
Quiet == calls' = NoCalls /\ returned' = NoReturn

Job(kind, a, e) == [job |-> kind, a |-> a, err |-> e]

\* The sources of an outcome: the download chain resolving or rejecting, the
\* handler of the timeout, cancel().
NoSource == [src |-> "none", err |-> "none"]
Source(src, e) == [src |-> src, err |-> e]
FirstOf(f, src, e) == IF f = NoSource THEN Source(src, e) ELSE f

\* ------------------------------------------------------- determineBehavior
\* determineBehavior without the test of openSyncedRealmLocally
determineBehavior_syncOnly(config, realmExists) ==
    IF ~config.sync
    THEN [threw |-> FALSE, openBehavior |-> OpenImmediately, timeOut |-> NoTimeOut,
          timeOutBehavior |-> Undefined]
    ELSE LET configBehavior == IF realmExists THEN config.existingRealmFileBehavior
                                              ELSE config.newRealmFileBehavior
         IN  IF configBehavior # NoBehavior
             THEN [threw |-> configBehavior.timeOut.kind \notin {"undefined", "number"},
                   openBehavior |-> configBehavior.type,
                   timeOut |-> configBehavior.timeOut,
                   timeOutBehavior |-> configBehavior.timeOutBehavior]
             ELSE [threw |-> FALSE, openBehavior |-> DownloadBeforeOpen,
                   timeOut |-> NumberTimeOut(DefaultTimeOut),
                   timeOutBehavior |-> ThrowException]

\* determineBehavior taking the behavior of the other case
determineBehavior_swapped(config, realmExists) ==
    IF ~config.sync \/ config.openSyncedRealmLocally
    THEN [threw |-> FALSE, openBehavior |-> OpenImmediately, timeOut |-> NoTimeOut,
          timeOutBehavior |-> Undefined]
    ELSE LET configBehavior == IF realmExists THEN config.newRealmFileBehavior
                                              ELSE config.existingRealmFileBehavior
         IN  IF configBehavior # NoBehavior
             THEN [threw |-> configBehavior.timeOut.kind \notin {"undefined", "number"},
                   openBehavior |-> configBehavior.type,
                   timeOut |-> configBehavior.timeOut,
                   timeOutBehavior |-> configBehavior.timeOutBehavior]
             ELSE [threw |-> FALSE, openBehavior |-> DownloadBeforeOpen,
                   timeOut |-> NumberTimeOut(DefaultTimeOut),
                   timeOutBehavior |-> ThrowException]

determineBehavior(config, realmExists) ==
    IF ~config.sync \/ config.openSyncedRealmLocally
    THEN [threw |-> FALSE, openBehavior |-> OpenImmediately, timeOut |-> NoTimeOut,
          timeOutBehavior |-> Undefined]
    ELSE LET configBehavior == IF realmExists THEN config.existingRealmFileBehavior
                                              ELSE config.newRealmFileBehavior
         IN  IF configBehavior # NoBehavior
             THEN [threw |-> configBehavior.timeOut.kind \notin {"undefined", "number"},
                   openBehavior |-> configBehavior.type,
                   timeOut |-> configBehavior.timeOut,
                   timeOutBehavior |-> configBehavior.timeOutBehavior]
             ELSE [threw |-> FALSE, openBehavior |-> DownloadBeforeOpen,
                   timeOut |-> NumberTimeOut(DefaultTimeOut),
                   timeOutBehavior |-> ThrowException]

\* createTimeoutPromise arming the timer without its delay
createTimeoutPromise_noDelay(b, time) ==
    IF b.timeOut.kind = "number"
    THEN [threw |-> b.timeOutBehavior \notin {ThrowException, OpenLocalRealm},
          tp |-> [set |-> TRUE, timer |-> "armed", due |-> time,
                  promise |-> Pending,
                  onReject |-> IF b.timeOutBehavior \in {ThrowException, OpenLocalRealm}
                               THEN b.timeOutBehavior ELSE "none"]]
    ELSE [threw |-> FALSE, tp |-> NoTimeoutPromise]

\* createTimeoutPromise taking the default timeOut when none is given
createTimeoutPromise_defaultTimeOut(b, time) ==
    LET ms == IF b.timeOut.kind = "number" THEN b.timeOut.ms ELSE DefaultTimeOut
    IN  [threw |-> b.timeOutBehavior \notin {ThrowException, OpenLocalRealm},
         tp |-> [set |-> TRUE, timer |-> "armed", due |-> time + ms,
                 promise |-> Pending,
                 onReject |-> IF b.timeOutBehavior \in {ThrowException, OpenLocalRealm}
                              THEN b.timeOutBehavior ELSE "none"]]

\* ---------------------------------------------------- createTimeoutPromise
\* The TimeoutPromise is constructed (and its timer armed) before timeOutBehavior
\* is looked at; an invalid timeOutBehavior throws after that.
createTimeoutPromise(b, time) ==
    IF b.timeOut.kind = "number"
    THEN [threw |-> b.timeOutBehavior \notin {ThrowException, OpenLocalRealm},
          tp |-> [set |-> TRUE, timer |-> "armed", due |-> time + b.timeOut.ms,
                  promise |-> Pending,
                  onReject |-> IF b.timeOutBehavior \in {ThrowException, OpenLocalRealm}
                               THEN b.timeOutBehavior ELSE "none"]]
    ELSE [threw |-> FALSE, tp |-> NoTimeoutPromise]

\* The reactions of the handle without the catch that cancels the task
Reactions_noCatch(a, out, catchRegistered, tp) ==
    IF tp.set THEN <<Job("timeoutForward", a, "none")>> ELSE <<>>

\* The reactions queued when handle.promise settles with outcome out, in the
\* order they were registered: the catch that cancels the task, then the
\* TimeoutPromise forwarding the outcome of the promise it wraps.
Reactions(a, out, catchRegistered, tp) ==
    (IF catchRegistered /\ out.kind = "rejected" THEN <<Job("cancelTask", a, "none")>> ELSE <<>>)
    \o (IF tp.set THEN <<Job("timeoutForward", a, "none")>> ELSE <<>>)

\* ------------------------------------------------------------- constructor
\* What the environment lets fail during construction: nothing, validateConfiguration,
\* new Realm(config), getSynchronizedRealm, or registerDownloadProgressNotifier.
ConstructFailures == {"none", "validate", "open", "getTask", "register"}

FailuresOf(s) == IF s = "one" THEN ConstructFailures ELSE {"none"}

\* the constructor without its try block: an error leaves the constructor
\* and the handle stays as it was
NotStarted_uncaught(out) ==
    [task |-> "null", native |-> NoNative, taskCatch |-> FALSE, tp |-> NoTimeoutPromise,
     notifierToken |-> "null", download |-> "none",
     outcome |-> IF out.kind = "rejected" THEN Pending ELSE out, opensFile |-> FALSE,
     raised |-> out.kind = "rejected"]

\* raised says whether an error leaves the constructor: everything after the
\* registration runs inside the try block, whose catch block rejects the handle.
NotStarted(out) ==
    [task |-> "null", native |-> NoNative, taskCatch |-> FALSE, tp |-> NoTimeoutPromise,
     notifierToken |-> "null", download |-> "none", outcome |-> out, opensFile |-> FALSE,
     raised |-> FALSE]

\* the error of the last else branch lost by the catch block
UnexpectedOpenBehavior_swallowed == NotStarted(Pending)

\* throw new Error(`Unexpected open behavior '${openBehavior}'`), caught by
\* the catch block of the constructor
UnexpectedOpenBehavior == NotStarted(Rejected("UnexpectedOpenBehavior"))

\* The fields of the attempt when the constructor returns.  The catch block
\* finds notifierToken still null on every path that throws (the token is
\* assigned by the last statement of the try block), so it only rejects.
Constructor(config, realmExists, fail, time) ==
    LET b == determineBehavior(config, realmExists) IN
    IF fail = "validate" THEN NotStarted(Rejected("InvalidConfiguration"))
    ELSE IF b.threw THEN NotStarted(Rejected("AssertionError"))
    ELSE IF b.openBehavior = OpenImmediately
    THEN IF fail = "open"
         THEN NotStarted(Rejected("OpenFailed"))
         ELSE [NotStarted(Resolved(LocalRealm)) EXCEPT !.opensFile = TRUE]
    ELSE IF b.openBehavior = DownloadBeforeOpen
    THEN IF fail = "getTask"
         THEN NotStarted(Rejected("GetSynchronizedRealmFailed"))
         ELSE LET t == createTimeoutPromise(b, time)
                  created == [NotStarted(Pending) EXCEPT
                                 !.task = "set",
                                 !.native = [NoNative EXCEPT !.created = TRUE],
                                 !.taskCatch = TRUE,
                                 !.tp = t.tp,
                                 !.opensFile = TRUE]
              IN  IF t.threw
                  THEN [created EXCEPT !.outcome = Rejected("InvalidTimeOutBehavior")]
                  ELSE IF fail = "register"
                  THEN [created EXCEPT !.native.started = TRUE,
                                       !.download = "started",
                                       !.outcome = Rejected("RegisterFailed")]
                  ELSE [created EXCEPT !.native.started = TRUE,
                                       !.native.notifier = TRUE,
                                       !.download = "started",
                                       !.notifierToken = "token"]
    ELSE UnexpectedOpenBehavior

\* Whether the case the constructor selects has a configured behavior.
Configured(config, realmExists) ==
    /\ config.sync
    /\ ~config.openSyncedRealmLocally
    /\ (IF realmExists THEN config.existingRealmFileBehavior
                       ELSE config.newRealmFileBehavior) # NoBehavior

Construct(a) ==
    /\ a \in AttemptsOf(scenario)
    /\ ~cfg[a].born
    /\ \A b \in Attempts : b < a => cfg[b].born
    /\ now <= LastBirth(scenario)
    /\ \E config \in ConfigsOf(scenario), fail \in FailuresOf(scenario) :
         LET realmExists == realmFile
             r == Constructor(config, realmExists, fail, now)
         IN  /\ instances' = IF allowClear THEN instances \cup {a} ELSE instances
             /\ cfg' = [cfg EXCEPT ![a] =
                          [born |-> TRUE, sync |-> config.sync,
                           openSyncedRealmLocally |-> config.openSyncedRealmLocally,
                           flexible |-> config.flexible, realmExists |-> realmExists,
                           configured |-> Configured(config, realmExists),
                           bornAt |-> now,
                           openBehavior |->
                               determineBehavior(config, realmExists).openBehavior,
                           timeOut |-> determineBehavior(config, realmExists).timeOut,
                           timeOutBehavior |->
                               determineBehavior(config, realmExists).timeOutBehavior]]
             /\ handle' = [handle EXCEPT ![a] = r.outcome]
             /\ task' = [task EXCEPT ![a] = r.task]
             /\ native' = [native EXCEPT ![a] = r.native]
             /\ taskCatch' = [taskCatch EXCEPT ![a] = r.taskCatch]
             /\ timeoutPromise' = [timeoutPromise EXCEPT ![a] = r.tp]
             /\ notifierToken' = [notifierToken EXCEPT ![a] = r.notifierToken]
             /\ download' = [download EXCEPT ![a] = r.download]
             /\ realmFile' = (realmFile \/ r.opensFile)
             /\ microtasks' = microtasks \o
                    (IF r.outcome # Pending
                     THEN Reactions(a, r.outcome, r.taskCatch, r.tp) ELSE <<>>)
             /\ first' = [first EXCEPT ![a] =
                    IF r.outcome # Pending THEN Source("construct", "none") ELSE @]
    /\ Quiet
    /\ UNCHANGED <<opened, now, allowClear, scenario, sessionClosed, emitted, seeded, listeners, unhandled, observed, cancelAt>>

\* ------------------------------------------------------------ sync session
\* The downloads of one Realm share its sync session.  When the task of an
\* attempt is canceled while it downloads, the session becomes inactive for
\* the other downloads in progress.  nat is the native tasks after the step.
SessionAfter(nat) ==
    [b \in Attempts |->
        \/ sessionClosed[b]
        \/ /\ download[b] = "started"
           /\ \E a \in Attempts \ {b} :
                 /\ download[a] = "started"
                 /\ ~native[a].canceled
                 /\ nat[a].canceled]

\* ----------------------------------------------------------------- cancel
\* The fields of attempt a that cancel() reads or writes; threw says whether
\* a call raised an error.
Fields(a) ==
    [task |-> task[a], native |-> native[a], tp |-> timeoutPromise[a],
     notifierToken |-> notifierToken[a], listeners |-> listeners[a],
     handle |-> handle[a], taskCatch |-> taskCatch[a], threw |-> FALSE]

\* cancelAndResetTask without the test of this.task: the calls on null throw
cancelAndResetTask_unguarded(s) ==
    IF s.task # "null"
    THEN [s EXCEPT !.native.canceled = TRUE, !.native.released = TRUE, !.task = "null"]
    ELSE [s EXCEPT !.threw = TRUE]

\* cancelAndResetTask: task.cancel(), task.$resetSharedPtr(), this.task = null
cancelAndResetTask(s) ==
    IF s.task # "null"
    THEN [s EXCEPT !.native.canceled = TRUE, !.native.released = TRUE, !.task = "null"]
    ELSE s

\* TimeoutPromise.cancel: clearTimeout
TimeoutPromiseCancel(tp) ==
    IF tp.set /\ tp.timer = "armed" THEN [tp EXCEPT !.timer = "cleared"] ELSE tp

\* task.unregisterDownloadProgressNotifier(token) behind this.task?. : it
\* reaches the native task only when this.task is not null.
unregisterDownloadProgressNotifier(s) ==
    IF s.task # "null" THEN [s EXCEPT !.native.notifier = FALSE] ELSE s

\* rejectAsCanceled writing the outcome without going through the handle
rejectAsCanceled_overwrite(h) == Rejected(CanceledError)

\* rejectAsCanceled
rejectAsCanceled(h) == HandleReject(h, CanceledError)

\* cancel() without its final rejectAsCanceled()
CancelFields_noReject(s) ==
    LET s1 == cancelAndResetTask(s)
        s2 == [s1 EXCEPT !.tp = TimeoutPromiseCancel(@)]
        s3 == IF s2.notifierToken # "null"
              THEN [unregisterDownloadProgressNotifier(s2) EXCEPT !.notifierToken = "null"]
              ELSE s2
    IN  [s3 EXCEPT !.listeners = {}]

\* cancel(), statement by statement
CancelFields(s) ==
    LET s1 == cancelAndResetTask(s)
        s2 == [s1 EXCEPT !.tp = TimeoutPromiseCancel(@)]
        s3 == IF s2.notifierToken # "null"
              THEN [unregisterDownloadProgressNotifier(s2) EXCEPT !.notifierToken = "null"]
              ELSE s2
        s4 == [s3 EXCEPT !.listeners = {}]
    IN  [s4 EXCEPT !.handle = rejectAsCanceled(@)]

\* The reactions cancel() queues: those of the handle, when this call settled it.
CancelJobs(a, s) ==
    IF s.handle # CancelFields(s).handle
    THEN Reactions(a, CancelFields(s).handle, s.taskCatch, s.tp) ELSE <<>>

NoCancel == [called |-> FALSE, pending |-> FALSE, beforeCompletion |-> FALSE]
\* What the first cancel() on attempt a found: the handle still pending, the
\* completion of the download not yet processed.
CancelAtNow(a) ==
    IF cancelAt[a].called THEN cancelAt[a]
    ELSE [called |-> TRUE, pending |-> handle[a] = Pending,
          beforeCompletion |-> download[a] \notin {"none", "fulfilled", "rejected"}]

cancel(a) ==
    /\ cfg[a].born
    /\ LET r == CancelFields(Fields(a))
       IN  /\ task' = [task EXCEPT ![a] = r.task]
           /\ native' = [native EXCEPT ![a] = r.native]
           /\ timeoutPromise' = [timeoutPromise EXCEPT ![a] = r.tp]
           /\ notifierToken' = [notifierToken EXCEPT ![a] = r.notifierToken]
           /\ listeners' = [listeners EXCEPT ![a] = r.listeners]
           /\ handle' = [handle EXCEPT ![a] = r.handle]
           /\ microtasks' = microtasks \o CancelJobs(a, Fields(a))
    /\ first' = [first EXCEPT ![a] = FirstOf(@, "cancel", "none")]
    /\ cancelAt' = [cancelAt EXCEPT ![a] = CancelAtNow(a)]
    /\ sessionClosed' = SessionAfter(native')
    /\ Quiet
    /\ UNCHANGED <<opened, now, realmFile, allowClear, scenario, emitted, seeded, instances, cfg, taskCatch, download,
                   unhandled, observed>>

\* The reactions queued by cancel() on each attempt of S, in ascending order
\* (the order of insertion into the instances set).
RECURSIVE CancelAllJobs(_)
CancelAllJobs(S) ==
    IF S = {} THEN <<>>
    ELSE LET a == CHOOSE x \in S : \A y \in S : x <= y
         IN  CancelJobs(a, Fields(a)) \o CancelAllJobs(S \ {a})

\* the loop of cancelAll leaving after its first live attempt
LiveInstances_firstOnly(collected) ==
    {a \in instances \ collected : \A b \in instances \ collected : a <= b}

\* The attempts the loop of cancelAll reaches: those whose WeakRef still
\* yields the attempt.
LiveInstances(collected) == instances \ collected

\* ProgressRealmPromise.cancelAll: deref() yields nothing for a collected
\* attempt, and only an attempt that has settled can have been collected.
cancelAll ==
    /\ \E collected \in SUBSET {a \in instances : handle[a] # Pending} :
         LET live == LiveInstances(collected)
             F(a) == CancelFields(Fields(a))
         IN  /\ task' = [a \in Attempts |-> IF a \in live THEN F(a).task ELSE task[a]]
             /\ native' = [a \in Attempts |-> IF a \in live THEN F(a).native ELSE native[a]]
             /\ timeoutPromise' =
                    [a \in Attempts |-> IF a \in live THEN F(a).tp ELSE timeoutPromise[a]]
             /\ notifierToken' =
                    [a \in Attempts |->
                        IF a \in live THEN F(a).notifierToken ELSE notifierToken[a]]
             /\ listeners' =
                    [a \in Attempts |-> IF a \in live THEN F(a).listeners ELSE listeners[a]]
             /\ handle' = [a \in Attempts |-> IF a \in live THEN F(a).handle ELSE handle[a]]
             /\ microtasks' = microtasks \o CancelAllJobs(live)
             /\ first' = [a \in Attempts |->
                    IF a \in live THEN FirstOf(first[a], "cancel", "none") ELSE first[a]]
             /\ cancelAt' = [a \in Attempts |->
                    IF a \in live THEN CancelAtNow(a) ELSE cancelAt[a]]
    /\ instances' = {}
    /\ sessionClosed' = SessionAfter(native')
    /\ Quiet
    /\ UNCHANGED <<opened, now, realmFile, allowClear, scenario, emitted, seeded, cfg, taskCatch, download, unhandled, observed>>

\* --------------------------------------------------------------- progress
\* An estimate is a fraction of 1, held in hundredths: 1.0 is 100.
FullEstimate == 100

\* Whether the calls of the listeners are recorded in this run.
Recording == scenario = "listeners"

\* A call of a listener: event is the number of the progress event that is
\* delivered, 0 for the call progress() makes itself.
Call(l, k, args) == [listener |-> l, event |-> k, args |-> args]

\* progress() calling every callback with (0.0, 0.0)
FirstCall_bytesOnly(l) == Call(l, 0, <<0, 0>>)

\* callback(1.0) for an estimate callback, callback(0.0, 0.0) otherwise
FirstCall(l) == Call(l, 0, IF l = "estimate" THEN <<FullEstimate>> ELSE <<0, 0>>)

progress(a, l) ==
    /\ cfg[a].born
    /\ l \in ListenersOf(scenario)
    /\ listeners' = [listeners EXCEPT ![a] = @ \cup {l}]
    /\ calls' = IF Recording THEN [NoCalls EXCEPT ![a] = <<FirstCall(l)>>] ELSE NoCalls
    /\ returned' = IF Recording THEN [NoReturn EXCEPT ![a] = a] ELSE NoReturn
    /\ seeded' = IF Recording THEN [seeded EXCEPT ![a] = @ \cup {l}] ELSE seeded
    /\ UNCHANGED <<opened, now, realmFile, allowClear, scenario, sessionClosed, emitted, instances,
                   cfg, handle, task, native, taskCatch, timeoutPromise, notifierToken,
                   download, microtasks, unhandled, observed, first, cancelAt>>

\* ------------------------------------------------------------ emitProgress
\* A 64-bit integer of the binding, and the number Int64.intToNum makes of it.
Int64(n) == [int64 |-> n]
IntToNum(v) == v.int64

\* The k-th progress event of a download: (transferred, transferable, estimate).
Event(k) ==
    [transferredArg |-> Int64(k), transferableArg |-> Int64(MaxEvents),
     progressEstimate |-> (k * FullEstimate) \div MaxEvents]

\* The orders in which a for-of loop can visit the set S.
Orders(S) ==
    {o \in [1 .. Cardinality(S) -> S] : \A i, j \in 1 .. Cardinality(S) : o[i] = o[j] => i = j}

\* emitProgress handing every listener the estimate
Deliver_estimateOnly(l, ev, k) == Call(l, k, <<ev.progressEstimate>>)

\* The call emitProgress makes of listener l for the k-th event ev.
Deliver(l, ev, k) ==
    LET transferred == IntToNum(ev.transferredArg)
        transferable == IntToNum(ev.transferableArg)
    IN  IF l = "estimate" THEN Call(l, k, <<ev.progressEstimate>>)
        ELSE Call(l, k, <<transferred, transferable>>)

\* The task calls the notifier registered by the constructor, between jobs,
\* for as long as the notifier is registered with it.
emitProgress(a) ==
    /\ microtasks = <<>>
    /\ native[a].notifier
    /\ Recording => emitted[a] < MaxEvents
    /\ \E o \in Orders(listeners[a]) :
         LET k == emitted[a] + 1
         IN  calls' = IF Recording
                      THEN [NoCalls EXCEPT ![a] =
                               [i \in 1 .. Len(o) |-> Deliver(o[i], Event(k), k)]]
                      ELSE NoCalls
    /\ returned' = NoReturn
    /\ emitted' = IF Recording THEN [emitted EXCEPT ![a] = @ + 1] ELSE emitted
    /\ UNCHANGED <<opened, now, realmFile, allowClear, scenario, sessionClosed, seeded, instances,
                   cfg, handle, task, native, taskCatch, timeoutPromise, notifierToken,
                   listeners, download, microtasks, unhandled, observed, first, cancelAt>>

\* Whether the outcomes handed to awaiters are recorded in this run.
Observing == scenario = "one"

\* An awaiter of the attempt (then/catch/finally) is handed the outcome.
Observe(a) ==
    /\ handle[a] # Pending
    /\ handle[a] \notin observed[a]
    /\ observed' = IF Observing THEN [observed EXCEPT ![a] = @ \cup {handle[a]}] ELSE observed
    /\ Quiet
    /\ UNCHANGED <<opened, now, realmFile, allowClear, scenario, sessionClosed, emitted, seeded, instances, cfg, handle, task, native,
                   taskCatch, timeoutPromise, notifierToken, listeners, download,
                   microtasks, unhandled, first, cancelAt>>

\* ------------------------------------------------------------------ clock
TimePoints ==
    (0 .. MaxTime)
    \cup {t + d : t \in 0 .. MaxTime, d \in ConfiguredTimeOuts \cup {DefaultTimeOut}}

\* Time passes.  The clock is read only when an attempt is constructed and
\* when a timer is due, so it advances only while one of the two can still happen.
Tick ==
    /\ microtasks = <<>>
    /\ \/ \E a \in AttemptsOf(scenario) : ~cfg[a].born /\ now < LastBirth(scenario)
       \/ \E a \in Attempts : timeoutPromise[a].timer = "armed" /\ now < timeoutPromise[a].due
    /\ \E t \in TimePoints :
         /\ t > now
         /\ \A u \in TimePoints : u > now => t <= u
         /\ now' = t
    /\ Quiet
    /\ UNCHANGED <<opened, realmFile, allowClear, scenario, sessionClosed, emitted, seeded, instances, cfg, handle, task, native, taskCatch,
                   timeoutPromise, notifierToken, listeners, download, microtasks,
                   unhandled, observed, first, cancelAt>>

\* ---------------------------------------------------------- TimeoutPromise
\* The timer of the TimeoutPromise expires: its promise rejects with a
\* TimeoutError, which runs the handler createTimeoutPromise attached.
TimerFire(a) ==
    /\ microtasks = <<>>
    /\ timeoutPromise[a].set
    /\ timeoutPromise[a].timer = "armed"
    /\ now >= timeoutPromise[a].due
    /\ timeoutPromise' = [timeoutPromise EXCEPT ![a] =
           [@ EXCEPT !.timer = "fired", !.promise = HandleReject(@, TimeoutError)]]
    /\ microtasks' =
           IF timeoutPromise[a].promise = Pending /\ timeoutPromise[a].onReject # "none"
           THEN <<Job("timeoutCatch", a, "none")>> ELSE <<>>
    /\ Quiet
    /\ UNCHANGED <<opened, now, realmFile, allowClear, scenario, sessionClosed, emitted, seeded, instances, cfg, handle, task, native,
                   taskCatch, notifierToken, listeners, download, unhandled, observed,
                   first, cancelAt>>

HeadIs(kind, a) ==
    /\ microtasks # <<>>
    /\ Head(microtasks).job = kind
    /\ Head(microtasks).a = a

\* inner.then(this.handle.resolve, this.handle.reject): the TimeoutPromise
\* takes the outcome of the promise it wraps, unless it has timed out.
RunTimeoutForward(a) ==
    /\ HeadIs("timeoutForward", a)
    /\ LET tp == timeoutPromise[a]
           forwarded == tp.promise = Pending
       IN  /\ timeoutPromise' = [timeoutPromise EXCEPT ![a] =
                  [@ EXCEPT !.promise = IF forwarded THEN handle[a] ELSE @]]
           /\ microtasks' = Tail(microtasks)
                  \o (IF forwarded /\ handle[a].kind = "rejected" /\ tp.onReject # "none"
                      THEN <<Job("timeoutCatch", a, "none")>> ELSE <<>>)
                  \o <<Job("timeoutFinally", a, "none")>>
    /\ Quiet
    /\ UNCHANGED <<opened, now, realmFile, allowClear, scenario, sessionClosed, emitted, seeded, instances, cfg, handle, task, native,
                   taskCatch, notifierToken, listeners, download, unhandled, observed,
                   first, cancelAt>>

\* .finally(() => this.cancel()) of the TimeoutPromise
RunTimeoutFinally(a) ==
    /\ HeadIs("timeoutFinally", a)
    /\ timeoutPromise' = [timeoutPromise EXCEPT ![a] = TimeoutPromiseCancel(@)]
    /\ microtasks' = Tail(microtasks)
    /\ Quiet
    /\ UNCHANGED <<opened, now, realmFile, allowClear, scenario, sessionClosed, emitted, seeded, instances, cfg, handle, task, native,
                   taskCatch, notifierToken, listeners, download, unhandled, observed,
                   first, cancelAt>>

\* The handler without its call of cancelAndResetTask()
TimeoutHandler_keepsTask(s, err, opens) ==
    IF s.tp.onReject = OpenLocalRealm /\ err = TimeoutError
    THEN IF opens THEN [s EXCEPT !.handle = HandleResolve(@, LocalRealm)]
                  ELSE [s EXCEPT !.threw = TRUE]
    ELSE [s EXCEPT !.handle = HandleReject(@, err)]

\* The handler createTimeoutPromise attached with timeoutPromise.catch, run
\* with the error err; opens says whether new Realm(config) succeeds.
\* ThrowException: this.handle.reject.  OpenLocalRealm: on a TimeoutError,
\* cancelAndResetTask() and new Realm(config), which yields the local Realm or
\* throws out of the handler; any other error rejects the handle.
TimeoutHandler(s, err, opens) ==
    IF s.tp.onReject = OpenLocalRealm /\ err = TimeoutError
    THEN LET s1 == cancelAndResetTask(s)
         IN  IF opens THEN [s1 EXCEPT !.handle = HandleResolve(@, LocalRealm)]
                      ELSE [s1 EXCEPT !.threw = TRUE]
    ELSE [s EXCEPT !.handle = HandleReject(@, err)]

RunTimeoutCatch(a) ==
    /\ HeadIs("timeoutCatch", a)
    /\ LET err == timeoutPromise[a].promise.val
           fallback == timeoutPromise[a].onReject = OpenLocalRealm /\ err = TimeoutError
       IN  \E opens \in BOOLEAN :
             LET r == TimeoutHandler(Fields(a), err, opens)
             IN  /\ fallback \/ opens
                 /\ handle' = [handle EXCEPT ![a] = r.handle]
                 /\ task' = [task EXCEPT ![a] = r.task]
                 /\ native' = [native EXCEPT ![a] = r.native]
                 /\ unhandled' = [unhandled EXCEPT ![a] =
                        IF r.threw THEN @ \cup {LocalOpenFailed} ELSE @]
                 /\ realmFile' = (realmFile \/ (fallback /\ opens))
                 /\ microtasks' = Tail(microtasks)
                        \o (IF handle[a] # r.handle
                            THEN Reactions(a, r.handle, taskCatch[a], timeoutPromise[a])
                            ELSE <<>>)
                 /\ first' = [first EXCEPT ![a] =
                        IF err = TimeoutError
                        THEN FirstOf(@, "timeout", IF r.threw THEN LocalOpenFailed ELSE "none")
                        ELSE @]
    /\ sessionClosed' = SessionAfter(native')
    /\ Quiet
    /\ UNCHANGED <<opened, now, allowClear, scenario, emitted, seeded, instances, cfg, taskCatch, timeoutPromise,
                   notifierToken, listeners, download, observed, cancelAt>>

\* handle.promise.catch(() => this.task?.cancel())
RunCancelTask(a) ==
    /\ HeadIs("cancelTask", a)
    /\ native' = [native EXCEPT ![a] =
           IF task[a] # "null" THEN [@ EXCEPT !.canceled = TRUE] ELSE @]
    /\ microtasks' = Tail(microtasks)
    /\ sessionClosed' = SessionAfter(native')
    /\ Quiet
    /\ UNCHANGED <<opened, now, realmFile, allowClear, scenario, emitted, seeded, instances, cfg, handle, task, taskCatch,
                   timeoutPromise, notifierToken, listeners, download, unhandled, observed,
                   first, cancelAt>>

\* ------------------------------------------------------ the download chain
CodedError == "ErrorWithCode"
DownloadErrors == {SessionInactive, "DownloadFailed", CodedError}
ErrorsOf(s) == IF s = "two" THEN {SessionInactive, "DownloadFailed"} ELSE DownloadErrors

\* The native task settles the promise of task.start().  A canceled task
\* never completes successfully, and a download whose session became inactive
\* fails with the error that says so.
DownloadComplete(a) ==
    /\ microtasks = <<>>
    /\ download[a] = "started"
    /\ \E res \in {"ok"} \cup ErrorsOf(scenario) :
         /\ res = "ok" => ~native[a].canceled
         /\ sessionClosed[a] => res = SessionInactive
         /\ download' = [download EXCEPT ![a] = "completed"]
         /\ microtasks' = <<IF res = "ok" THEN Job("open", a, "none") ELSE Job("reject", a, res)>>
    /\ Quiet
    /\ UNCHANGED <<opened, now, realmFile, allowClear, scenario, sessionClosed, emitted, seeded, instances, cfg, handle, task, native,
                   taskCatch, timeoutPromise, notifierToken, listeners, unhandled, observed,
                   first, cancelAt>>

NoOpen == [called |-> FALSE, realmExists |-> FALSE, beforeDue |-> FALSE]

\* the options with Realm.exists(config) evaluated when the download completes
OpenOptions_existsNow(captured, file, early) ==
    [called |-> TRUE, realmExists |-> file, beforeDue |-> early]

\* { internal: ..., realmExists }: the options of new Realm(config, ...) in the
\* download chain.  captured is the constant of the constructor, file is
\* whether the Realm file exists when the chain runs, early is whether the
\* chain runs before the timeOut of the attempt has elapsed.
OpenOptions(captured, file, early) ==
    [called |-> TRUE, realmExists |-> captured, beforeDue |-> early]

\* Whether the timeOut of attempt a is still to elapse; recorded in the runs
\* that observe one attempt.
BeforeDue(a) == Observing /\ timeoutPromise[a].set /\ now < timeoutPromise[a].due

\* the handler looking at the subscriptions of every Realm
WaitsForSubscriptions_always(c) == TRUE

\* config.sync?.flexible && !config.openSyncedRealmLocally: whether the
\* handler looks at the state of the subscriptions of the Realm it opened.
WaitsForSubscriptions(c) == c.flexible /\ ~c.openSyncedRealmLocally

\* the handler returning the Realm without awaiting its subscriptions
AfterOpen_noWait(a, res) ==
    IF res = "threw" THEN <<Job("reject", a, "OpenFailed")>>
    ELSE <<Job("resolve", a, "none")>>

\* The reaction the handler of task.start() queues when it is left: it
\* returns the Realm, it throws, or it is suspended in await and queues none.
AfterOpen(a, res) ==
    CASE res = "opened" -> <<Job("resolve", a, "none")>>
      [] res = "threw" -> <<Job("reject", a, "OpenFailed")>>
      [] OTHER -> <<>>

\* async (tsr) => { new Realm(config, { internal, realmExists }); ... }: the
\* Realm is opened from the thread safe reference; under flexible sync the
\* function awaits waitForSynchronization() when the subscriptions are Pending.
RunOpen(a) ==
    /\ HeadIs("open", a)
    /\ opened' = [opened EXCEPT ![a] = OpenOptions(cfg[a].realmExists, realmFile, BeforeDue(a))]
    /\ \E res \in {"opened", "awaitingSubscriptions", "threw"} :
         /\ res = "awaitingSubscriptions" => WaitsForSubscriptions(cfg[a])
         /\ download' = [download EXCEPT ![a] =
                IF res = "awaitingSubscriptions" THEN res ELSE "completed"]
         /\ microtasks' = Tail(microtasks) \o AfterOpen(a, res)
    /\ Quiet
    /\ UNCHANGED <<now, realmFile, allowClear, scenario, sessionClosed, emitted, seeded, instances, cfg, handle, task, native,
                   taskCatch, timeoutPromise, notifierToken, listeners, unhandled, observed,
                   first, cancelAt>>

\* subscriptions.waitForSynchronization() settles.
SubscriptionsSynchronized(a) ==
    /\ microtasks = <<>>
    /\ download[a] = "awaitingSubscriptions"
    /\ \E ok \in BOOLEAN :
         /\ download' = [download EXCEPT ![a] = "completed"]
         /\ microtasks' = <<IF ok THEN Job("resolve", a, "none")
                                  ELSE Job("reject", a, "SubscriptionsFailed")>>
    /\ Quiet
    /\ UNCHANGED <<opened, now, realmFile, allowClear, scenario, sessionClosed, emitted, seeded, instances, cfg, handle, task, native,
                   taskCatch, timeoutPromise, notifierToken, listeners, unhandled, observed,
                   first, cancelAt>>

\* .then(this.handle.resolve, ...)
OnDownloadResolved(h) == HandleResolve(h, DownloadedRealm)

RunResolve(a) ==
    /\ HeadIs("resolve", a)
    /\ LET out == OnDownloadResolved(handle[a])
       IN  /\ handle' = [handle EXCEPT ![a] = out]
           /\ microtasks' = Tail(microtasks)
                  \o (IF handle[a] # out
                      THEN Reactions(a, out, taskCatch[a], timeoutPromise[a]) ELSE <<>>)
    /\ download' = [download EXCEPT ![a] = "fulfilled"]
    /\ first' = [first EXCEPT ![a] = FirstOf(@, "success", "none")]
    /\ Quiet
    /\ UNCHANGED <<opened, now, realmFile, allowClear, scenario, sessionClosed, emitted, seeded, instances, cfg, task, native, taskCatch,
                   timeoutPromise, notifierToken, listeners, unhandled, observed, cancelAt>>

\* the handler rejecting with every error as it is
OnDownloadRejected_asIs(h, err) ==
    IF err = CodedError THEN h ELSE HandleReject(h, err)

\* the handler without the test of the message
OnDownloadRejected_noMessageTest(h, err) ==
    IF err = CodedError THEN h ELSE HandleReject(h, err)

\* .then(..., (err) => { assert.undefined(err.code, ...); ... }): the assertion
\* throws out of the handler for an error that carries a code; the session
\* inactive message rejects as canceled; any other error rejects the handle.
OnDownloadRejected(h, err) ==
    IF err = CodedError THEN h
    ELSE IF err = SessionInactive THEN rejectAsCanceled(h)
    ELSE HandleReject(h, err)

RunReject(a) ==
    /\ HeadIs("reject", a)
    /\ LET err == Head(microtasks).err
           out == OnDownloadRejected(handle[a], err)
       IN  /\ handle' = [handle EXCEPT ![a] = out]
           /\ unhandled' = [unhandled EXCEPT ![a] =
                  IF err = CodedError THEN @ \cup {"AssertionError"} ELSE @]
           /\ microtasks' = Tail(microtasks)
                  \o (IF handle[a] # out
                      THEN Reactions(a, out, taskCatch[a], timeoutPromise[a]) ELSE <<>>)
           /\ first' = [first EXCEPT ![a] = FirstOf(@, "failure", err)]
    /\ download' = [download EXCEPT ![a] = "rejected"]
    /\ Quiet
    /\ UNCHANGED <<opened, now, realmFile, allowClear, scenario, sessionClosed, emitted, seeded, instances, cfg, task, native, taskCatch,
                   timeoutPromise, notifierToken, listeners, observed, cancelAt>>

\* ------------------------------------------------------------ specification
Start ==
    /\ now = 0
    /\ realmFile \in BOOLEAN
    /\ allowClear \in BOOLEAN
    /\ instances = {}
    /\ cfg = [a \in Attempts |-> NoCfg]
    /\ handle = [a \in Attempts |-> Pending]
    /\ task = [a \in Attempts |-> "null"]
    /\ native = [a \in Attempts |-> NoNative]
    /\ taskCatch = [a \in Attempts |-> FALSE]
    /\ timeoutPromise = [a \in Attempts |-> NoTimeoutPromise]
    /\ notifierToken = [a \in Attempts |-> "null"]
    /\ listeners = [a \in Attempts |-> {}]
    /\ download = [a \in Attempts |-> "none"]
    /\ microtasks = <<>>
    /\ unhandled = [a \in Attempts |-> {}]
    /\ observed = [a \in Attempts |-> {}]
    /\ first = [a \in Attempts |-> NoSource]
    /\ cancelAt = [a \in Attempts |-> NoCancel]
    /\ sessionClosed = [a \in Attempts |-> FALSE]
    /\ calls = NoCalls
    /\ returned = NoReturn
    /\ emitted = [a \in Attempts |-> 0]
    /\ seeded = [a \in Attempts |-> {}]
    /\ opened = [a \in Attempts |-> NoOpen]

Init == Start /\ scenario = "one"
InitListeners == Start /\ scenario = "listeners"
InitTwo == Start /\ scenario = "two" /\ allowClear /\ ~realmFile

Next ==
    \/ \E a \in Attempts : Construct(a)
    \/ \E a \in Attempts : cancel(a)
    \/ cancelAll
    \/ \E a \in Attempts, l \in Listeners : progress(a, l)
    \/ \E a \in Attempts : emitProgress(a)
    \/ \E a \in Attempts : Observe(a)
    \/ Tick
    \/ \E a \in Attempts : TimerFire(a)
    \/ \E a \in Attempts : RunTimeoutForward(a)
    \/ \E a \in Attempts : RunTimeoutFinally(a)
    \/ \E a \in Attempts : RunTimeoutCatch(a)
    \/ \E a \in Attempts : RunCancelTask(a)
    \/ \E a \in Attempts : DownloadComplete(a)
    \/ \E a \in Attempts : RunOpen(a)
    \/ \E a \in Attempts : SubscriptionsSynchronized(a)
    \/ \E a \in Attempts : RunResolve(a)
    \/ \E a \in Attempts : RunReject(a)

Spec == Init /\ [][Next]_vars

\* The event loop runs every queued reaction and every timer that is due, and
\* time passes; the download, the subscriptions and the callers are not obliged
\* to do anything.
Fairness ==
    /\ WF_vars(Tick)
    /\ \A a \in Attempts :
          /\ WF_vars(TimerFire(a))
          /\ WF_vars(RunTimeoutForward(a))
          /\ WF_vars(RunTimeoutFinally(a))
          /\ WF_vars(RunTimeoutCatch(a))
          /\ WF_vars(RunCancelTask(a))
          /\ WF_vars(RunOpen(a))
          /\ WF_vars(RunResolve(a))
          /\ WF_vars(RunReject(a))

FairSpec == Spec /\ Fairness

\* One attempt whose listeners' calls are recorded.
ListenersSpec == InitListeners /\ [][Next]_vars

\* Two attempts on the same Realm.
TwoSpec == InitTwo /\ [][Next]_vars

\* A download whose session became inactive is told so.
SessionFailure(a) == sessionClosed[a] /\ DownloadComplete(a)

TwoFairSpec == TwoSpec /\ Fairness /\ \A a \in Attempts : WF_vars(SessionFailure(a))

\* ============================================================== properties
Downloading(a) == cfg[a].born /\ download[a] # "none" /\ first[a].src # "construct"

\* C1 (settle-once): once the handle of an attempt holds an outcome, no step
\* changes it, whatever the order of download completions, timer expiries,
\* cancel() and cancelAll(); every awaiter is handed that one outcome.
SettleOnce ==
    /\ [][\A a \in Attempts : handle[a] # Pending => handle'[a] = handle[a]]_vars
    /\ [](\A a \in Attempts :
            /\ handle[a].kind \in {"pending", "resolved", "rejected"}
            /\ observed[a] \subseteq {handle[a]})

\* A canceled attempt whose download chain delivered its result afterwards,
\* with an awaiter that has seen the outcome.
SettleOnceWitness ==
    \E a \in Attempts :
        /\ cancelAt[a].pending
        /\ cancelAt[a].beforeCompletion
        /\ download[a] = "fulfilled"
        /\ handle[a] = Rejected(CanceledError)
        /\ observed[a] = {handle[a]}

\* What a source makes of the attempt when it is the one that decides.
OutcomeOf(a, f) ==
    CASE f.src = "success" -> Resolved(DownloadedRealm)
      [] f.src = "failure" ->
            IF f.err = SessionInactive THEN Rejected(CanceledError) ELSE Rejected(f.err)
      [] f.src = "timeout" ->
            IF timeoutPromise[a].onReject = ThrowException THEN Rejected(TimeoutError)
            ELSE IF f.err = "none" THEN Resolved(LocalRealm) ELSE Rejected(f.err)
      [] OTHER -> Rejected(CanceledError)

\* C2: the outcome of a Downloading attempt is the one of the first source to
\* occur among download success, download failure, timer expiry and cancel.
FirstSourceDecides ==
    \A a \in Attempts :
        (Downloading(a) /\ first[a] # NoSource) => handle[a] = OutcomeOf(a, first[a])

\* C3 as stated: a cancel() before the completion of the download is
\* processed makes the outcome the canceled error.
CancelBeforeCompletionCancels ==
    \A a \in Attempts :
        (Downloading(a) /\ cancelAt[a].called /\ cancelAt[a].beforeCompletion)
            => handle[a] = Rejected(CanceledError)

\* C3 (amended): a cancel() on an attempt that has not settled, before the
\* completion of its download is processed, makes the outcome the canceled
\* error for good; and after a cancel() no step turns an attempt into a success.
CancellationWins ==
    /\ [](\A a \in Attempts :
            (cancelAt[a].called /\ cancelAt[a].pending /\ cancelAt[a].beforeCompletion)
                => handle[a] = Rejected(CanceledError))
    /\ [][\A a \in Attempts :
            (cancelAt[a].called /\ handle[a].kind # "resolved")
                => handle'[a].kind # "resolved"]_vars

\* cancel() came while the Realm was being opened from a successful
\* download, and the chain then delivered that Realm.
CancellationWinsWitness ==
    \E a \in Attempts :
        /\ cancelAt[a].pending
        /\ cancelAt[a].beforeCompletion
        /\ first[a].src = "cancel"
        /\ download[a] = "fulfilled"
        /\ handle[a] = Rejected(CanceledError)

\* C4: under OpenLocalRealm with the Realm present locally, when the timer
\* expires before any other source has delivered and the local Realm opens,
\* the attempt is resolved with the local Realm and the task has been canceled
\* and dropped.
TimeoutFallback ==
    \A a \in Attempts :
        ( /\ Downloading(a)
          /\ timeoutPromise[a].onReject = OpenLocalRealm
          /\ cfg[a].realmExists
          /\ first[a] = Source("timeout", "none") )
        => /\ handle[a] = Resolved(LocalRealm)
           /\ native[a].canceled
           /\ task[a] = "null"

TimeoutFallbackWitness ==
    \E a \in Attempts :
        /\ timeoutPromise[a].onReject = OpenLocalRealm
        /\ timeoutPromise[a].timer = "fired"
        /\ cfg[a].realmExists
        /\ first[a] = Source("timeout", "none")
        /\ handle[a] = Resolved(LocalRealm)
        /\ native[a].canceled

\* C5: under OpenLocalRealm, when the timer expires and the local open
\* fails, the attempt is rejected with the error of that open.
FallbackOpenFailureRejects ==
    \A a \in Attempts :
        (Downloading(a) /\ first[a] = Source("timeout", LocalOpenFailed))
            => handle[a] = Rejected(LocalOpenFailed)

\* C6: under ThrowException an attempt is never rejected with the
\* TimeoutError before its timeOut has elapsed since construction, and it is
\* rejected with it when the download does not complete and nobody cancels.
AwaitingTimeout(a) ==
    /\ Downloading(a)
    /\ timeoutPromise[a].onReject = ThrowException
    /\ handle[a] = Pending
    /\ download[a] = "started"

FailOnTimeout ==
    /\ [](\A a \in Attempts :
            handle[a] = Rejected(TimeoutError)
                => /\ cfg[a].timeOut.kind = "number"
                   /\ now >= cfg[a].bornAt + cfg[a].timeOut.ms)
    /\ \A a \in Attempts :
            AwaitingTimeout(a)
                ~> \/ handle[a] = Rejected(TimeoutError)
                   \/ download[a] # "started"
                   \/ cancelAt[a].called

\* Rejected with the TimeoutError at the very moment the timeOut has elapsed,
\* for an attempt constructed after time 0.
FailOnTimeoutWitness ==
    \E a \in Attempts :
        /\ handle[a] = Rejected(TimeoutError)
        /\ cfg[a].bornAt > 0
        /\ now = cfg[a].bornAt + cfg[a].timeOut.ms
        /\ download[a] = "started"
        /\ ~cancelAt[a].called

\* C7: a Downloading attempt that has settled, with no reaction left to run,
\* has its notifier unregistered from the task, its task released and no
\* timer armed.
ReleasedWhenSettled ==
    \A a \in Attempts :
        (Downloading(a) /\ handle[a] # Pending /\ microtasks = <<>>)
            => /\ ~native[a].notifier
               /\ native[a].released
               /\ timeoutPromise[a].timer # "armed"

\* C8: after cancel() the notifier of the attempt is no longer registered
\* with the task.
CancelUnregisters ==
    \A a \in Attempts : (Downloading(a) /\ cancelAt[a].called) => ~native[a].notifier

\* C9: in every reachable state, a second cancel() right after a first one
\* changes no field of the attempt, queues no reaction and raises no error.
CancelIdempotent ==
    \A a \in Attempts :
        cfg[a].born =>
            LET once == CancelFields(Fields(a))
                twice == CancelFields(once)
            IN  /\ twice = once
                /\ ~twice.threw
                /\ CancelJobs(a, once) = <<>>

\* cancel() has acted on an attempt that was pending with a live task, an
\* armed timer and a listener.
CancelIdempotentWitness ==
    \E a \in Attempts :
        /\ cancelAt[a].pending
        /\ first[a].src = "cancel"
        /\ native[a].released
        /\ timeoutPromise[a].timer = "cleared"
        /\ handle[a] = Rejected(CanceledError)
        /\ Fields(a) = CancelFields(Fields(a))

\* C10: cancel() on a settled attempt changes no field of it.
CancelSettledIsNoOp ==
    \A a \in Attempts :
        (cfg[a].born /\ handle[a] # Pending /\ microtasks = <<>>)
            => CancelFields(Fields(a)) = Fields(a)

\* C11 (bulk cancellation): a cancelAll() step leaves every registered attempt
\* that had not settled rejected with the canceled error, leaves the outcome
\* of every attempt that had settled as it was, and empties the registry.
BulkCancellation ==
    [][cancelAll =>
          /\ \A a \in Attempts :
                /\ (a \in instances /\ handle[a] = Pending)
                       => handle'[a] = Rejected(CanceledError)
                /\ handle[a] # Pending => handle'[a] = handle[a]
          /\ instances' = {}]_vars

\* cancelAll() has run with two attempts in the registry: one had been
\* resolved with the downloaded Realm, the other was pending and is canceled.
BulkCancellationWitness ==
    \E a, b \in Attempts :
        /\ a # b
        /\ cfg[a].born /\ cfg[b].born
        /\ instances = {}
        /\ handle[a] = Resolved(DownloadedRealm)
        /\ cancelAt[a].called /\ ~cancelAt[a].pending
        /\ cancelAt[b].pending /\ first[b].src = "cancel"
        /\ handle[b] = Rejected(CanceledError)

\* An attempt constructed with sync disabled or with openSyncedRealmLocally.
LocalOnly(a) == cfg[a].born /\ (~cfg[a].sync \/ cfg[a].openSyncedRealmLocally)

\* No task, no download and no TimeoutPromise exist for the attempt.
NeverDownloads(a) ==
    /\ task[a] = "null"
    /\ ~native[a].created
    /\ download[a] = "none"
    /\ ~timeoutPromise[a].set

\* C12 as stated: with sync disabled or local-only opening requested, the
\* attempt is settled with the local Realm when construction has returned, and
\* it has no task and no timer.
ImmediateOpenYieldsLocalRealm ==
    \A a \in Attempts : LocalOnly(a) => handle[a] = Resolved(LocalRealm) /\ NeverDownloads(a)

\* C12 (amended): with sync disabled or local-only opening requested, the
\* decision is OpenImmediately whatever the file and the configured
\* behaviors; construction settles the attempt, with the local Realm or with
\* the error that validating the configuration or opening the Realm raised;
\* that outcome stays, and the attempt never has a task or a timer.
ImmediateOpenSettles ==
    /\ (\A a \in Attempts : ~cfg[a].born) =>
            \A config \in Configs, realmExists \in BOOLEAN :
                (~config.sync \/ config.openSyncedRealmLocally) =>
                    /\ determineBehavior(config, realmExists).openBehavior = OpenImmediately
                    /\ ~determineBehavior(config, realmExists).threw
    /\ \A a \in Attempts :
            LocalOnly(a) =>
                /\ handle[a] \in {Resolved(LocalRealm), Rejected("InvalidConfiguration"),
                                  Rejected("OpenFailed")}
                /\ first[a] = Source("construct", "none")
                /\ NeverDownloads(a)

\* A synced Realm opened locally on request, with no file on disk before,
\* resolved with the local Realm and canceled afterwards.
ImmediateOpenSettlesWitness ==
    \E a \in Attempts :
        /\ cfg[a].sync /\ cfg[a].openSyncedRealmLocally
        /\ ~cfg[a].realmExists
        /\ handle[a] = Resolved(LocalRealm)
        /\ cancelAt[a].called
        /\ NeverDownloads(a)

\* An attempt constructed with sync enabled and no openSyncedRealmLocally.
Synced(a) == cfg[a].born /\ cfg[a].sync /\ ~cfg[a].openSyncedRealmLocally

\* C13: with sync enabled and no local-only request, the decision is the
\* existingRealmFileBehavior when the file exists and the newRealmFileBehavior
\* when it does not; when that one is not configured, the decision is
\* downloadBeforeOpen with a timeOut of 30000 ms and throwException, and an
\* attempt constructed so carries a timer due 30000 ms after its construction.
PerCaseBehavior ==
    /\ (\A a \in Attempts : ~cfg[a].born) =>
            \A config \in Configs, realmExists \in BOOLEAN :
                (config.sync /\ ~config.openSyncedRealmLocally) =>
                    LET selected == IF realmExists THEN config.existingRealmFileBehavior
                                                   ELSE config.newRealmFileBehavior
                        b == determineBehavior(config, realmExists)
                    IN  IF selected # NoBehavior
                        THEN /\ b.openBehavior = selected.type
                             /\ b.timeOut = selected.timeOut
                             /\ b.timeOutBehavior = selected.timeOutBehavior
                        ELSE /\ b.openBehavior = DownloadBeforeOpen
                             /\ b.timeOut = NumberTimeOut(30000)
                             /\ b.timeOutBehavior = ThrowException
                             /\ ~b.threw
    /\ \A a \in Attempts :
            (Synced(a) /\ ~cfg[a].configured /\ download[a] # "none") =>
                /\ cfg[a].timeOut = NumberTimeOut(30000)
                /\ timeoutPromise[a].set
                /\ timeoutPromise[a].onReject = ThrowException
                /\ timeoutPromise[a].due = cfg[a].bornAt + 30000

\* A synced Realm whose file exists, opened with no existingRealmFileBehavior
\* at time 1: the download runs under a timer due at 30001.
PerCaseBehaviorWitness ==
    \E a \in Attempts :
        /\ Synced(a)
        /\ cfg[a].realmExists
        /\ ~cfg[a].configured
        /\ cfg[a].bornAt = 1
        /\ download[a] = "started"
        /\ timeoutPromise[a].timer = "armed"
        /\ timeoutPromise[a].due = 30001

\* The configurations whose selected behavior has a type that is neither
\* openImmediately nor downloadBeforeOpen, and a well-typed timeOut.
Unrecognized(config, realmExists) ==
    /\ determineBehavior(config, realmExists).openBehavior
           \notin {OpenImmediately, DownloadBeforeOpen}
    /\ ~determineBehavior(config, realmExists).threw

\* C14 as stated: the error of an unrecognized open behavior is raised out of
\* the constructor, so that no attempt exists that has it as its outcome.
UnrecognizedBehaviorRaises ==
    \A a \in Attempts : cfg[a].born => handle[a] # Rejected("UnexpectedOpenBehavior")

\* C14 (amended): the constructor raises nothing for an unrecognized open
\* behavior; it returns an attempt that is already rejected with the error,
\* with no task, no download and no timer, and that outcome stays.
UnrecognizedBehaviorRejects ==
    /\ (\A a \in Attempts : ~cfg[a].born) =>
            \A config \in Configs, realmExists \in BOOLEAN :
                Unrecognized(config, realmExists) =>
                    LET r == Constructor(config, realmExists, "none", now)
                    IN  /\ ~r.raised
                        /\ r.outcome = Rejected("UnexpectedOpenBehavior")
                        /\ r.task = "null" /\ ~r.native.created /\ ~r.tp.set
    /\ \A a \in Attempts :
            handle[a] = Rejected("UnexpectedOpenBehavior")
                => /\ Synced(a) /\ cfg[a].configured
                   /\ first[a] = Source("construct", "none")
                   /\ NeverDownloads(a)

\* An attempt rejected by its constructor for an unrecognized open behavior,
\* canceled afterwards.
UnrecognizedBehaviorRejectsWitness ==
    \E a \in Attempts :
        /\ Synced(a) /\ cfg[a].configured
        /\ handle[a] = Rejected("UnexpectedOpenBehavior")
        /\ first[a] = Source("construct", "none")
        /\ cancelAt[a].called
        /\ NeverDownloads(a)

\* An attempt whose decision is downloadBeforeOpen with a timeOutBehavior
\* that is given and is neither throwException nor openLocalRealm, and whose
\* configuration passed validateConfiguration.
InvalidPolicy(a) ==
    /\ cfg[a].born
    /\ cfg[a].openBehavior = DownloadBeforeOpen
    /\ cfg[a].timeOut.kind \in {"undefined", "number"}
    /\ cfg[a].timeOutBehavior \notin {ThrowException, OpenLocalRealm, Undefined}
    /\ handle[a] # Rejected("InvalidConfiguration")

\* C15: a downloadBeforeOpen decision with an invalid timeOutBehavior, with a
\* timeOut or without one, ends construction in a configuration error before
\* a task is created or started and before a timer is armed.
InvalidPolicyFailsBeforeAsync ==
    \A a \in Attempts :
        InvalidPolicy(a) =>
            /\ handle[a].kind = "rejected"
            /\ first[a] = Source("construct", "none")
            /\ ~native[a].created
            /\ ~native[a].started
            /\ ~timeoutPromise[a].set

\* C16: when the failure of the download with the message "Sync session
\* became inactive" is the first source to reach the handle, the attempt is
\* rejected with the canceled error, the outcome cancel() gives a pending
\* attempt, and not with the error of the download.
SessionInactiveIsCanceled ==
    \A a \in Attempts :
        first[a] = Source("failure", SessionInactive) =>
            /\ handle[a] = Rejected(CanceledError)
            /\ handle[a] = CancelFields([Fields(a) EXCEPT !.handle = Pending]).handle
            /\ handle[a] # Rejected(SessionInactive)

\* The session of a download became inactive with nobody canceling the
\* attempt, and the attempt is rejected as canceled.
SessionInactiveIsCanceledWitness ==
    \E a \in Attempts :
        /\ first[a] = Source("failure", SessionInactive)
        /\ download[a] = "rejected"
        /\ ~cancelAt[a].called
        /\ handle[a] = Rejected(CanceledError)

\* C17: when a failure of the download other than the inactive session is
\* the first source to reach the handle, the attempt is rejected with that
\* very error, whether the error carries a code or not.
DownloadErrorPropagates ==
    \A a \in Attempts :
        (first[a].src = "failure" /\ first[a].err # SessionInactive)
            => handle[a] = Rejected(first[a].err)

SyntheticFirstCall ==
    /\ [][\A a \in Attempts, l \in Listeners :
             progress(a, l) =>
                 /\ calls' = [NoCalls EXCEPT ![a] =
                        <<[listener |-> l, event |-> 0,
                           args |-> IF l = "estimate" THEN <<100>> ELSE <<0, 0>>]>>]
                 /\ returned'[a] = a]_vars
    /\ [](\A a \in Attempts :
            /\ listeners[a] \subseteq seeded[a]
            /\ \A i \in 1 .. Len(calls[a]) :
                  calls[a][i].event > 0 => calls[a][i].listener \in seeded[a])

\* progress() has just registered an estimate listener on an attempt whose
\* download has emitted an event to a byte-count listener already.
SyntheticFirstCallWitness ==
    \E a \in Attempts :
        /\ calls[a] = <<FirstCall("estimate")>>
        /\ returned[a] = a
        /\ emitted[a] = 1
        /\ listeners[a] = {"estimate", "bytes"}
        /\ download[a] = "started"

\* C20: the k-th emitProgress step of an attempt calls every listener that
\* is registered at that moment, once and nobody else, with the k-th event:
\* its estimate for an estimate listener, its transferred and transferable
\* byte counts for a byte-count listener.
ProgressFanOut ==
    [][\A a \in Attempts :
          (emitProgress(a) /\ Recording) =>
              LET k == emitted[a] + 1
                  ev == Event(k)
              IN  /\ emitted'[a] = k
                  /\ Len(calls'[a]) = Cardinality(listeners[a])
                  /\ \A l \in listeners[a] :
                        \E i \in 1 .. Len(calls'[a]) :
                            calls'[a][i] =
                                [listener |-> l, event |-> k,
                                 args |-> IF l = "estimate"
                                          THEN <<ev.progressEstimate>>
                                          ELSE <<ev.transferredArg.int64,
                                                 ev.transferableArg.int64>>]
                  /\ \A b \in Attempts \ {a} : calls'[b] = <<>>]_vars

\* The second event of a download has just been handed to an estimate
\* listener and to a byte-count listener.
ProgressFanOutWitness ==
    \E a \in Attempts :
        /\ emitted[a] = 2
        /\ Len(calls[a]) = 2
        /\ \A i \in 1 .. 2 : calls[a][i].event = 2
        /\ {calls[a][i].listener : i \in 1 .. 2} = {"estimate", "bytes"}
        /\ handle[a] = Pending

\* C21: once cancel() has returned on an attempt, no step hands a progress
\* event of its download to a listener of that attempt, whatever is
\* registered with progress() afterwards.
LateProgressDropped ==
    \A a \in Attempts :
        cancelAt[a].called => \A i \in 1 .. Len(calls[a]) : calls[a][i].event = 0

\* C22: the step that settles an attempt, whether its download succeeds or
\* fails, its timer expires or it is canceled, leaves its listener set empty.
ListenersClearedAtSettlement ==
    [][\A a \in Attempts :
          (handle[a] = Pending /\ handle'[a] # Pending) => listeners'[a] = {}]_vars

\* C23 (transitive cancellation): whenever an attempt whose task has been
\* created is rejected, by the timeout, by a failure of the download, by
\* cancel() or by an error raised in the constructor after the task was
\* created, its task is eventually canceled.
TransitiveCancellation ==
    \A a \in Attempts :
        (native[a].created /\ handle[a].kind = "rejected") ~> native[a].canceled

\* An attempt rejected by the expiry of its timer, with nobody calling
\* cancel(): its task is still held and has been canceled.
TransitiveCancellationWitness ==
    \E a \in Attempts :
        /\ handle[a] = Rejected(TimeoutError)
        /\ first[a].src = "timeout"
        /\ ~cancelAt[a].called
        /\ task[a] = "set"
        /\ native[a].canceled

\* An attempt whose decision carries no timeOut that is a number.
NoDeadline(a) == cfg[a].born /\ cfg[a].timeOut.kind # "number"

\* C24: a configured behavior that gives no timeOut yields a decision with no
\* timeOut, not the default of 30000 ms, and no TimeoutPromise; an attempt
\* whose decision has no timeOut never has a TimeoutPromise or a timer and is
\* never settled by a timeout.
NoDeadlineNoTimer ==
    /\ (\A a \in Attempts : ~cfg[a].born) =>
            \A config \in Configs, realmExists \in BOOLEAN :
                LET selected == IF realmExists THEN config.existingRealmFileBehavior
                                               ELSE config.newRealmFileBehavior
                    b == determineBehavior(config, realmExists)
                IN  (Configured(config, realmExists) /\ selected.timeOut = NoTimeOut) =>
                        /\ b.timeOut = NoTimeOut
                        /\ createTimeoutPromise(b, now) =
                               [threw |-> FALSE, tp |-> NoTimeoutPromise]
    /\ \A a \in Attempts :
            NoDeadline(a) =>
                /\ ~timeoutPromise[a].set
                /\ timeoutPromise[a].timer = "none"
                /\ handle[a] # Rejected(TimeoutError)
                /\ first[a].src # "timeout"

\* A download configured with throwException and no timeOut has resolved the
\* attempt, with no TimeoutPromise ever made.
NoDeadlineNoTimerWitness ==
    \E a \in Attempts :
        /\ cfg[a].configured
        /\ cfg[a].openBehavior = DownloadBeforeOpen
        /\ cfg[a].timeOut = NoTimeOut
        /\ cfg[a].timeOutBehavior = ThrowException
        /\ handle[a] = Resolved(DownloadedRealm)
        /\ ~timeoutPromise[a].set

\* C25: the realmExists of an attempt is whether the file existed in the
\* state its constructor was called in, before the task that may create the
\* file exists; and when the download chain opens the Realm it passes that
\* value, whatever has become of the file in the meantime.
ExistenceCapturedFirst ==
    /\ [][\A a \in Attempts :
             (~cfg[a].born /\ cfg'[a].born) =>
                 /\ ~native[a].created
                 /\ cfg'[a].realmExists = realmFile]_vars
    /\ [](\A a \in Attempts :
             opened[a].called => opened[a].realmExists = cfg[a].realmExists)

\* A Realm with no file when the attempt was constructed; creating the task
\* made the file, and the chain opened the downloaded Realm as a new one.
ExistenceCapturedFirstWitness ==
    \E a \in Attempts :
        /\ ~cfg[a].realmExists
        /\ realmFile
        /\ opened[a].called
        /\ ~opened[a].realmExists
        /\ handle[a] = Resolved(DownloadedRealm)

\* The timeout settles the attempt in this step: with its error or with the
\* local Realm of the fallback.
SettledByTimeout(a) ==
    /\ handle[a] = Pending
    /\ handle'[a] \in {Rejected(TimeoutError), Resolved(LocalRealm)}

\* The successful completion of the download reached the attempt (its handler
\* opened the downloaded Realm) before the timeOut had elapsed.
CompletedBeforeDeadline(a) ==
    /\ opened[a].called
    /\ opened[a].beforeDue

\* C26 as stated: when the successful completion of the download reached the
\* attempt before the timeOut had elapsed, the timeout does not settle the
\* attempt afterwards.
CompletionBeatsDeadline ==
    [][\A a \in Attempts : CompletedBeforeDeadline(a) => ~SettledByTimeout(a)]_vars

\* C26 (amended): once the successful completion of the download has reached
\* the attempt, the timeout does not settle it, except while the handler waits
\* for the subscriptions of a flexible-sync Realm to synchronize; and when the
\* success of the download is the first source to deliver, the attempt is
\* resolved with the downloaded Realm.
CompletionBeatsDeadlineUnlessWaiting ==
    /\ [][\A a \in Attempts :
             ( /\ opened[a].called
               /\ \/ ~(cfg[a].flexible /\ ~cfg[a].openSyncedRealmLocally)
                  \/ download[a] # "awaitingSubscriptions" )
                 => ~SettledByTimeout(a)]_vars
    /\ [](\A a \in Attempts :
             first[a].src = "success" => handle[a] = Resolved(DownloadedRealm))

\* The download of a Realm without flexible sync completed before the
\* timeOut had elapsed: the attempt is resolved with the downloaded Realm and
\* its timer has been cleared.
CompletionBeatsDeadlineUnlessWaitingWitness ==
    \E a \in Attempts :
        /\ ~cfg[a].flexible
        /\ CompletedBeforeDeadline(a)
        /\ timeoutPromise[a].timer = "cleared"
        /\ first[a].src = "success"
        /\ ~cancelAt[a].called
        /\ handle[a] = Resolved(DownloadedRealm)

\* Whether something raises an error while the constructor runs with this
\* configuration: validateConfiguration, the assertion of determineBehavior,
\* new Realm, getSynchronizedRealm, createTimeoutPromise, the registration of
\* the notifier, or the throw of the last else branch.
ConstructionFails(config, realmExists, fail) ==
    LET b == determineBehavior(config, realmExists) IN
    \/ fail = "validate"
    \/ b.threw
    \/ b.openBehavior = OpenImmediately /\ fail = "open"
    \/ /\ b.openBehavior = DownloadBeforeOpen
       /\ \/ fail \in {"getTask", "register"}
          \/ /\ b.timeOut.kind = "number"
             /\ b.timeOutBehavior \notin {ThrowException, OpenLocalRealm}
    \/ b.openBehavior \notin {OpenImmediately, DownloadBeforeOpen}

\* C27: the constructor raises nothing; when something fails while it runs,
\* the attempt it returns is rejected; and the attempt it returns is settled
\* or has a started download, so that an attempt is never pending without one.
ConstructionNeverThrows ==
    /\ (\A a \in Attempts : ~cfg[a].born) =>
            \A config \in Configs, realmExists \in BOOLEAN, fail \in ConstructFailures :
                LET r == Constructor(config, realmExists, fail, now)
                IN  /\ ~r.raised
                    /\ ConstructionFails(config, realmExists, fail)
                           => r.outcome.kind = "rejected"
                    /\ \/ r.outcome # Pending
                       \/ r.task = "set" /\ r.native.started /\ r.download = "started"
    /\ \A a \in Attempts :
            (cfg[a].born /\ handle[a] = Pending)
                => native[a].started /\ download[a] # "none"

\* The registration of the notifier failed after the download had been
\* started: the constructor returned an attempt rejected with that error.
ConstructionNeverThrowsWitness ==
    \E a \in Attempts :
        /\ cfg[a].born
        /\ native[a].started
        /\ first[a] = Source("construct", "none")
        /\ handle[a] = Rejected("RegisterFailed")

\* C28: an attempt that is downloading under a TimeoutPromise eventually
\* settles, whatever its download does and whichever handler the timeout has.
DeadlineSettles ==
    \A a \in Attempts :
        (download[a] # "none" /\ timeoutPromise[a].set /\ handle[a] = Pending)
            ~> (handle[a] # Pending)

\* C29: only a flexible-sync Realm that is not opened locally is waited for;
\* while the handler waits for its subscriptions to synchronize, no step
\* resolves the attempt with the downloaded Realm; and when the wait fails
\* first, the attempt is rejected with the error of the wait.
SubscriptionsGate ==
    /\ [][\A a \in Attempts :
             download[a] = "awaitingSubscriptions"
                 => handle'[a] # Resolved(DownloadedRealm)]_vars
    /\ [](\A a \in Attempts :
             /\ download[a] = "awaitingSubscriptions"
                    => /\ cfg[a].flexible /\ ~cfg[a].openSyncedRealmLocally
                       /\ opened[a].called
                       /\ handle[a] # Resolved(DownloadedRealm)
             /\ first[a] = Source("failure", "SubscriptionsFailed")
                    => handle[a] = Rejected("SubscriptionsFailed"))

\* The download of a flexible-sync Realm succeeded, the wait for its
\* subscriptions failed, and the attempt is rejected with that error.
SubscriptionsGateWitness ==
    \E a \in Attempts :
        /\ cfg[a].flexible
        /\ opened[a].called
        /\ download[a] = "rejected"
        /\ first[a] = Source("failure", "SubscriptionsFailed")
        /\ handle[a] = Rejected("SubscriptionsFailed")

====
